---- MODULE Spec2Model ----
(***************************************************************************)
(* Model of src/globes.js: one instance of the solar-system animation      *)
(* created by globes(container, options).                                  *)
(*                                                                         *)
(* Numbers.  The program computes in IEEE doubles; the model computes in   *)
(* decimal fixed point and rounds the products and quotients of lengths    *)
(* and of the scale factor to the nearest representable value, as the      *)
(* doubles do (at a coarser grain):                                        *)
(*   - lengths on the screen (x, y, z, r, dr) in units of 1/PX pixel;      *)
(*   - the scale factor in units of 1/SCALE_ONE;                           *)
(*   - catalog sizes (r, d, ring) in hundredths, since the catalog has two *)
(*     decimals (E = 18.33);                                               *)
(*   - sines and cosines in thousandths;                                   *)
(*   - time in ticks of 14.4 s, the largest unit of which the time step    *)
(*     9e5 s and every planetary period are whole multiples; a period is a *)
(*     fraction num/den of ticks (the Sun's 1 s is 5/72 tick);             *)
(*   - the viewing angle in milliradians.                                  *)
(* Math.cos of an orbital phase is read from a table of PHASES steps per   *)
(* turn.  Of the painting, the model keeps which discs and rings are       *)
(* painted and in which order; an arc is centred at state[i].x, state[i].y *)
(* from the canvas centre (cx, cy) with radius state[i].r, and the         *)
(* geometry of the ring stroke (ringR, lw, hidden) is not modelled.        *)
(***************************************************************************)
EXTENDS Integers, Sequences, FiniteSets, TLC

\* ------------------------------------------------------------------ bounds
MaxFrames == 3          \* frames executed in one behaviour
MaxDpr == 2             \* largest window.devicePixelRatio
Widths == {0, 15, 1300, 2600}  \* container widths, in pixels
Heights == {15, 2600}          \* container heights, in pixels

\* ------------------------------------------------------- units of the model
PX == 10000
SCALE_ONE == 1000000
CAT == 100
MILLI == 1000
PHASES == 32
NULL == -1

Min(a, b) == IF a <= b THEN a ELSE b
Max(a, b) == IF a >= b THEN a ELSE b
Abs(a) == IF a >= 0 THEN a ELSE -a

\* a * b / c rounded to the nearest integer (ties upwards), computed without
\* leaving 32 bits: a = qa*c + ra, b = qb*c + rb.
MulDiv(a, b, c) ==
    LET qa == a \div c
        ra == a % c
        qb == b \div c
        rb == b % c
        q  == qa * qb * c + qa * rb + ra * qb + (ra * rb) \div c
        rem == (ra * rb) % c
    IN q + (IF 2 * rem >= c THEN 1 ELSE 0)

\* ---------------------------------------------------------------- catalog
S == 200000
E == 1833
M == 500
J == 20100
SA == 16700
U == 7290
N == 7050
\* the maximum taken from Uranus's orbit instead of Neptune's
MAX_ORBIT_URANUS == S + 2500 * CAT

MAX_ORBIT == S + 4500 * CAT

MILLIDAY == 6          \* a thousandth of 864e2 s, in ticks
TENTH_HOUR == 25       \* a tenth of 36e2 s, in ticks
Days(thousandths) == [num |-> thousandths * MILLIDAY, den |-> 1]

\* bodies[i] of the source is bodies[i + 1] here; o is the parent's source
\* index, NULL for none.
bodies == <<
    [r |-> S,   d |-> 0,               p |-> [num |-> 5, den |-> 72], o |-> NULL, ring |-> <<>>],
    [r |-> 700, d |-> S + 20 * CAT,    p |-> Days(58600),    o |-> 0, ring |-> <<>>],
    [r |-> 1700, d |-> S + 50 * CAT,   p |-> Days(243000),   o |-> 0, ring |-> <<>>],
    [r |-> E,   d |-> S + 150 * CAT,   p |-> Days(365256),   o |-> 0, ring |-> <<>>],
    [r |-> M,   d |-> E + 50 * CAT,    p |-> Days(29500),    o |-> 3, ring |-> <<>>],
    [r |-> 976, d |-> S + 250 * CAT,   p |-> Days(687000),   o |-> 0, ring |-> <<>>],
    [r |-> J,   d |-> S + 700 * CAT,   p |-> Days(4333000),  o |-> 0, ring |-> <<>>],
    [r |-> 525, d |-> J + 20 * CAT,    p |-> [num |-> 425 * TENTH_HOUR, den |-> 1], o |-> 6, ring |-> <<>>],
    [r |-> 449, d |-> J + 40 * CAT,    p |-> Days(3500),     o |-> 6, ring |-> <<>>],
    [r |-> 757, d |-> J + 70 * CAT,    p |-> Days(7155),     o |-> 6, ring |-> <<>>],
    [r |-> 740, d |-> J + 200 * CAT,   p |-> Days(16689),    o |-> 6, ring |-> <<>>],
    [r |-> SA,  d |-> S + 1500 * CAT,  p |-> Days(10756000), o |-> 0, ring |-> <<SA + 100 * CAT, SA + 200 * CAT>>],
    [r |-> U,   d |-> S + 2500 * CAT,  p |-> Days(30688000), o |-> 0, ring |-> <<U + 100 * CAT, U + 200 * CAT>>],
    [r |-> N,   d |-> S + 4500 * CAT,  p |-> Days(60182000), o |-> 0, ring |-> <<>>]
>>

Idx == 0 .. (Len(bodies) - 1)
Body(i) == bodies[i + 1]

VARIABLES
    called,             \* globes() has run
    attached,           \* the canvas is a child of the container
    listening,          \* resize is registered as a window resize listener
    rafPending,         \* frame callbacks requested and not yet run
    rectWidth, rectHeight, devicePixelRatio,   \* the host: container, window
    canvasWidth, canvasHeight, transform,      \* the canvas and its context
    t, angle, scale, state,                    \* line 37-38
    drawn,              \* what the last frame painted, in painting order
    frames,             \* history: executions of draw()
    tUsed, usedScale,   \* history: t and scale read by the last draw()
    op,                 \* history: the function that ran last
    torn                \* history: the teardown handle has been invoked

host == <<rectWidth, rectHeight, devicePixelRatio>>
surface == <<canvasWidth, canvasHeight, transform>>
history == <<frames, tUsed, usedScale, op, torn>>
vars == <<called, attached, listening, rafPending, host, surface,
          t, angle, scale, state, drawn, history>>


\* --------------------------------------------------------------- arithmetic
\* v (hundredths) times sc (1/SCALE_ONE), in 1/PX pixel
ScaleBy(v, sc) == MulDiv(v, sc, (CAT * SCALE_ONE) \div PX)

\* Math.sin, Math.cos of the viewing angle a (milliradians), in thousandths:
\* the Taylor series up to a^3 and a^4
Sin(a) == a - MulDiv(a * a, a, 6 * MILLI) \div MILLI
Cos(a) == MILLI - (a * a) \div (2 * MILLI)
          + (((a * a) \div MILLI) * ((a * a) \div MILLI)) \div (24 * MILLI)

\* Math.cos of k/PHASES of a turn, in thousandths
COS_QUADRANT == <<1000, 981, 924, 831, 707, 556, 383, 195, 0>>
CosTurn(k) ==
    LET q == PHASES \div 4
    IN IF k <= q THEN COS_QUADRANT[k + 1]
       ELSE IF k <= 2 * q THEN -COS_QUADRANT[2 * q - k + 1]
       ELSE IF k <= 3 * q THEN -COS_QUADRANT[k - 2 * q + 1]
       ELSE COS_QUADRANT[4 * q - k + 1]

\* Math.PI / 2 as a phase offset
HALF_PI == PHASES \div 4

\* t / p * 2 * Math.PI as a phase step: the fraction of a turn, rounded down
Phase(tt, p) == ((((tt * p.den) % p.num) * PHASES) \div p.num) % PHASES

orbit(tt, p, off) == CosTurn((Phase(tt, p) + off) % PHASES)

\* ------------------------------------------------------------------- resize
ResizedScale(w, h) == MulDiv(Min(w, h), SCALE_ONE, (MAX_ORBIT * 2) \div CAT)

\* window.devicePixelRatio || 1 (0 stands for a missing ratio)
Dpr(d) == IF d = 0 THEN 1 ELSE d

\* resize() with the container measuring w x h and the window ratio d
resize(w, h, d) ==
    /\ canvasWidth' = w * Dpr(d)
    /\ canvasHeight' = h * Dpr(d)
    /\ transform' = Dpr(d)
    /\ scale' = ResizedScale(w, h)

\* --------------------------------------------------------------------- draw
STEP == 62500          \* 9e5 s in ticks
FLOOR_SATELLITE == PX \div 2
FLOOR_SUN == (51 * PX) \div 100
Floor(b) == IF b.o # NULL THEN FLOOR_SATELLITE ELSE FLOOR_SUN

ORIGIN == [x |-> 0, y |-> 0, z |-> 0]

\* the radius left unclamped
RadiusUnclamped(b, sc) == ScaleBy(b.r, sc)

\* Math.max(b.o !== null ? 0.5 : 0.51, b.r * scale)
Radius(b, sc) == Max(Floor(b), ScaleBy(b.r, sc))

\* the body of the position loop for body i, reading the array st
UpdateBody(st, i, tt, ang, sc) ==
    LET b == Body(i)
        parent == IF b.o # NULL THEN st[b.o] ELSE ORIGIN
        dist == ScaleBy(b.d, sc)
    IN [x |-> parent.x + MulDiv(dist, orbit(tt, b.p, 0), MILLI),
        y |-> parent.y + MulDiv(MulDiv(Sin(ang), dist, MILLI),
                                orbit(tt, b.p, HALF_PI), MILLI),
        z |-> parent.z + MulDiv(MulDiv(Cos(ang), dist, MILLI),
                                orbit(tt, b.p, HALF_PI), MILLI),
        r |-> Radius(b, sc),
        dr |-> ScaleBy(b.d, sc)]

RECURSIVE UpdateFrom(_, _, _, _, _)
UpdateFrom(st, i, tt, ang, sc) ==
    IF i >= Len(bodies) THEN st
    ELSE UpdateFrom([st EXCEPT ![i] = UpdateBody(st, i, tt, ang, sc)],
                    i + 1, tt, ang, sc)

RECURSIVE UpdateDownFrom(_, _, _, _, _)
UpdateDownFrom(st, i, tt, ang, sc) ==
    IF i < 0 THEN st
    ELSE UpdateDownFrom([st EXCEPT ![i] = UpdateBody(st, i, tt, ang, sc)],
                        i - 1, tt, ang, sc)

\* the loop run from the last body to the first: a body is computed before
\* its parent
UpdatePositionsDescending(st, tt, ang, sc) ==
    UpdateDownFrom(st, Len(bodies) - 1, tt, ang, sc)

\* for (let i = 0; i < bodies.length; i++) { ... } on the array st, in place
UpdatePositions(st, tt, ang, sc) == UpdateFrom(st, 0, tt, ang, sc)

\* the comparator with its operands exchanged
compareAscending(a, b) == a.z - b.z

\* the comparator (a, b) => b.z - a.z
compare(a, b) == b.z - a.z

\* Array.prototype.sort is stable: an element goes after every element the
\* comparator does not put behind it.
RECURSIVE Insert(_, _)
Insert(sorted, e) ==
    IF sorted = <<>> THEN <<e>>
    ELSE IF compare(Head(sorted), e) > 0
         THEN <<e>> \o sorted
         ELSE <<Head(sorted)>> \o Insert(Tail(sorted), e)

RECURSIVE SortFrom(_, _, _)
SortFrom(st, i, acc) ==
    IF i >= Len(bodies) THEN acc
    ELSE SortFrom(st, i + 1,
                  Insert(acc, [x |-> st[i].x, y |-> st[i].y, z |-> st[i].z,
                               r |-> st[i].r, dr |-> st[i].dr, i |-> i]))

\* state.map((s, i) => ({ ...s, i })).sort((a, b) => b.z - a.z)
Sorted(st) == SortFrom(st, 0, <<>>)

\* the test with >= for >
DiscDrawnAtFloor(obj) == obj.r >= PX \div 2 \/ Body(obj.i).o = NULL

\* if (obj.r > 0.5 || b.o === null)
DiscDrawn(obj) == obj.r > PX \div 2 \/ Body(obj.i).o = NULL

\* what the drawing loop paints for obj
Paint(obj) ==
    [i |-> obj.i, disc |-> DiscDrawn(obj), ring |-> Body(obj.i).ring # <<>>]

\* One execution of draw(): positions at time tRead with scale sc, the
\* painting, the clock set to tNext, and requests calls of
\* requestAnimationFrame(draw) on top of the queued frame callbacks.
drawBody(sc, queued, tRead, tNext, requests) ==
    \E st \in {UpdatePositions(state, tRead, angle, sc)} :
    \E sorted \in {Sorted(st)} :
       /\ state' = st
       /\ drawn' = [k \in 1 .. Len(sorted) |-> Paint(sorted[k])]
       /\ tUsed' = tRead
       /\ usedScale' = sc
       /\ t' = tNext
       /\ rafPending' = queued + requests
       /\ frames' = frames + 1

\* draw() advancing the clock before the position loop
drawAdvancesFirst(sc, queued) == drawBody(sc, queued, t + STEP, t + STEP, 1)

\* draw() without its closing requestAnimationFrame(draw)
drawNoRequest(sc, queued) == drawBody(sc, queued, t, t + STEP, 0)

\* draw() reading scale sc, with queued frame callbacks still requested when
\* it runs
draw(sc, queued) == drawBody(sc, queued, t, t + STEP, 1)


\* ------------------------------------------------------------------ actions
Ratios == 0 .. MaxDpr

\* before globes() is called; t, angle, scale and state as lines 37-38
\* declare them
Init ==
    /\ called = FALSE
    /\ attached = FALSE
    /\ listening = FALSE
    /\ rafPending = 0
    /\ rectWidth \in Widths
    /\ rectHeight \in Heights
    /\ devicePixelRatio \in Ratios
    /\ canvasWidth = 300
    /\ canvasHeight = 150
    /\ transform = 1
    /\ t = 0
    /\ angle = -300
    /\ scale = SCALE_ONE
    /\ state = [i \in Idx |-> [x |-> 0, y |-> 0, z |-> 0, r |-> 0, dr |-> 0]]
    /\ drawn = <<>>
    /\ frames = 0
    /\ tUsed = 0
    /\ usedScale = 0
    /\ op = "none"
    /\ torn = FALSE

\* globes() with draw() called before resize()
MountDrawsFirst ==
    /\ ~called
    /\ called' = TRUE
    /\ attached' = TRUE
    /\ draw(scale, rafPending)
    /\ resize(rectWidth, rectHeight, devicePixelRatio)
    /\ listening' = TRUE
    /\ op' = "globes"
    /\ UNCHANGED <<host, angle, torn>>

\* globes(container, options): append the canvas, resize(), register the
\* listener, draw()
Mount ==
    /\ ~called
    /\ called' = TRUE
    /\ attached' = TRUE
    /\ resize(rectWidth, rectHeight, devicePixelRatio)
    /\ listening' = TRUE
    /\ draw(scale', rafPending)
    /\ op' = "globes"
    /\ UNCHANGED <<host, angle, torn>>

\* the host runs a requested frame callback: draw()
Frame ==
    /\ rafPending > 0
    /\ frames < MaxFrames
    /\ op' = "draw"
    /\ UNCHANGED <<called, attached, listening, host, surface, angle, scale,
                   torn>>
    /\ draw(scale, rafPending - 1)

\* the window is resized: the container measures w x h, the ratio is d, and
\* the resize event goes to the registered listener
WindowResize(w, h, d) ==
    /\ rectWidth' = w
    /\ rectHeight' = h
    /\ devicePixelRatio' = d
    /\ IF listening
          THEN resize(w, h, d) /\ op' = "resize"
          ELSE UNCHANGED <<surface, scale>> /\ op' = "event"
    /\ UNCHANGED <<called, attached, listening, rafPending, t, angle, state,
                   drawn, frames, tUsed, usedScale, torn>>

\* the handle without removeEventListener
TeardownKeepsListener ==
    /\ called
    /\ listening' = listening
    /\ attached' = FALSE
    /\ torn' = TRUE
    /\ op' = "teardown"
    /\ UNCHANGED <<called, rafPending, host, surface, t, angle, scale, state,
                   drawn, frames, tUsed, usedScale>>

\* the handle globes() returns
Teardown ==
    /\ called
    /\ listening' = FALSE
    /\ attached' = FALSE
    /\ torn' = TRUE
    /\ op' = "teardown"
    /\ UNCHANGED <<called, rafPending, host, surface, t, angle, scale, state,
                   drawn, frames, tUsed, usedScale>>

Next ==
    \/ Mount
    \/ Frame
    \/ \E w \in Widths, h \in Heights, d \in Ratios : WindowResize(w, h, d)
    \/ Teardown

Spec == Init /\ [][Next]_vars

\* A step of Frame: no other action counts a frame with op' = "draw", and
\* Frame can run whenever its guard holds.
FrameRuns ==
    /\ rafPending > 0
    /\ frames < MaxFrames
    /\ frames' = frames + 1
    /\ op' = "draw"

\* the host's frame scheduler runs every requested callback
FairSpec == Spec /\ WF_<<frames, op>>(FrameRuns)


\* ================================================================== claims
Satellite(i) == Body(i).o # NULL
FrameDone == frames >= 1

\* C1: once the teardown handle has been invoked, draw() never runs again and
\* no further frame callback is requested.
C1_TeardownStopsLoop ==
    [][torn => (frames' = frames /\ rafPending' <= rafPending)]_vars

\* C2: after teardown the listener is detached and the canvas is no child of
\* the container, and no later resize event changes the scale factor, the
\* canvas width and height or the transform.
C2_ResizeAfterTeardownInert ==
    /\ [](torn => (~listening /\ ~attached))
    /\ [][torn => (scale' = scale /\ canvasWidth' = canvasWidth
                   /\ canvasHeight' = canvasHeight /\ transform' = transform)]_vars

\* a resize event arrived after teardown, for a container whose size calls
\* for another scale than the one kept
C2_Witness ==
    /\ torn
    /\ op = "event"
    /\ frames >= 2
    /\ scale # ResizedScale(rectWidth, rectHeight)

\* the state of body i computed from time, angle and scale alone, along the
\* chain of its parents
RECURSIVE FreshBody(_, _, _, _)
FreshBody(i, tt, ang, sc) ==
    LET b == Body(i)
        parent == IF b.o # NULL THEN FreshBody(b.o, tt, ang, sc) ELSE ORIGIN
        dist == ScaleBy(b.d, sc)
    IN [x |-> parent.x + MulDiv(dist, orbit(tt, b.p, 0), MILLI),
        y |-> parent.y + MulDiv(MulDiv(Sin(ang), dist, MILLI),
                                orbit(tt, b.p, HALF_PI), MILLI),
        z |-> parent.z + MulDiv(MulDiv(Cos(ang), dist, MILLI),
                                orbit(tt, b.p, HALF_PI), MILLI),
        r |-> Max(IF b.o # NULL THEN PX \div 2 ELSE (51 * PX) \div 100,
                  ScaleBy(b.r, sc)),
        dr |-> dist]

\* C3: the states a frame leaves in the array are a function of the time,
\* the angle and the scale the frame read: each body's x, y, z, r and dr are
\* what its parent chain gives from the origin, whatever earlier frames left
\* in the array.
C3_StateIsFunctionOfInputs ==
    FrameDone => \A i \in Idx : state[i] = FreshBody(i, tUsed, angle, usedScale)

\* a later frame ran over the array an earlier frame filled at another time,
\* and a moon stands off its planet
C3_Witness ==
    /\ frames >= 2
    /\ tUsed > 0
    /\ usedScale > 0
    /\ state[4].x # state[3].x
    /\ state[3].x # 0

\* C4: after every frame every body's radius is at least its floor, 0.51 for
\* the central body and 0.5 for a satellite, and the central floor is the
\* larger.
C4_RadiusFloor ==
    /\ (51 * PX) \div 100 > PX \div 2
    /\ FrameDone =>
          \A i \in Idx :
             IF Satellite(i) THEN state[i].r >= PX \div 2
                             ELSE state[i].r >= (51 * PX) \div 100

\* a frame ran with scale 0 and the radii sit on their floors
C4_Witness ==
    /\ FrameDone
    /\ usedScale = 0
    /\ state[0].r = (51 * PX) \div 100
    /\ state[4].r = PX \div 2

\* C5 as stated: in every frame every body's disc is drawn, whatever the
\* scale.
C5_EveryDiscDrawn ==
    FrameDone => \A k \in 1 .. Len(drawn) : drawn[k].disc

\* C5 amended: in every frame the central body's disc is drawn, and a
\* satellite's disc is drawn exactly when its scaled radius b.r * scale
\* exceeds 0.5; a satellite clamped to the floor is not drawn.
C5_DiscDrawnIffAboveFloor ==
    FrameDone =>
       /\ Len(drawn) = Len(bodies)
       /\ \A k \in 1 .. Len(drawn) :
             drawn[k].disc <=>
                (\/ ~Satellite(drawn[k].i)
                 \/ ScaleBy(Body(drawn[k].i).r, usedScale) > PX \div 2)

\* a frame in which one satellite sits on the floor and is left out while
\* another is drawn
C5_Witness ==
    /\ FrameDone
    /\ \E k \in 1 .. Len(drawn) : Satellite(drawn[k].i) /\ ~drawn[k].disc
                                  /\ state[drawn[k].i].r = PX \div 2
    /\ \E k \in 1 .. Len(drawn) : Satellite(drawn[k].i) /\ drawn[k].disc

\* C6: the clock starts at 0, is STEP times the number of frames executed,
\* never decreases, moves only in a frame and then by STEP; the k-th frame
\* reads STEP * (k - 1); a resize event leaves it alone.
C6_Clock ==
    /\ [](t = STEP * frames)
    /\ [](FrameDone => tUsed = STEP * (frames - 1))
    /\ [][/\ t' >= t
          /\ t' # t => (frames' = frames + 1 /\ t' = t + STEP)
          /\ frames' = frames + 1 => t' = t + STEP
          /\ op' \in {"resize", "event"} => t' = t]_vars

\* frames and resize events have interleaved
C6_Witness ==
    /\ frames >= 3
    /\ op = "resize"
    /\ t = 3 * STEP
    /\ usedScale # scale

\* the sum of the scaled orbit distances of body i and of its parents
RECURSIVE ChainDist(_, _)
ChainDist(i, sc) ==
    ScaleBy(Body(i).d, sc)
    + (IF Satellite(i) THEN ChainDist(Body(i).o, sc) ELSE 0)

\* the rounding a chain can accumulate: half a unit in the last place of
\* scale times each orbit distance, and one unit of length for each product
RECURSIVE ChainSlack(_)
ChainSlack(i) ==
    Body(i).d \div (2 * ((CAT * SCALE_ONE) \div PX)) + 1
    + (IF Satellite(i) THEN ChainSlack(Body(i).o) ELSE 0)

\* the smaller logical side of the container as the last resize() measured
\* it, and its half in units of length
LastMin == Min(canvasWidth, canvasHeight) \div transform
HalfMin == (LastMin * PX) \div 2
JustDrawn == op \in {"globes", "draw"}

\* C7 as stated: after a resize the scale is min(width, height) / 13000, the
\* scaled orbit distances along every parent chain sum to at most
\* min(width, height) / 2, and every centre a frame computes is no farther
\* than that from the canvas centre on each axis.
C7_OrbitFits ==
    /\ called => scale = MulDiv(LastMin, SCALE_ONE, 13000)
    /\ JustDrawn =>
          \A i \in Idx :
             /\ ChainDist(i, usedScale) <= HalfMin
             /\ Abs(state[i].x) <= HalfMin
             /\ Abs(state[i].y) <= HalfMin

\* C7 amended: the scale is min(width, height) / 13000 rounded to the nearest
\* representable number, and the chain sums and the centres stay within
\* min(width, height) / 2 plus the rounding of the scale and of the products.
C7_OrbitFitsUpToRounding ==
    /\ called => scale = MulDiv(LastMin, SCALE_ONE, 13000)
    /\ JustDrawn =>
          \A i \in Idx :
             /\ ChainDist(i, usedScale) <= HalfMin + ChainSlack(i)
             /\ Abs(state[i].x) <= HalfMin + ChainSlack(i)
             /\ Abs(state[i].y) <= HalfMin + ChainSlack(i)

\* the first frame in a container 15 wide: Neptune stands at its full orbit
\* distance, which rounding has pushed past 7.5
C7_Witness ==
    /\ op = "globes"
    /\ LastMin = 15
    /\ state[13].x = ChainDist(13, usedScale)
    /\ state[13].x > HalfMin
    /\ state[13].x <= HalfMin + ChainSlack(13)

\* C8: in every frame the painting order visits every body once, by
\* non-increasing z of the states of that frame, bodies of equal z by
\* ascending index; sorting the same states again gives the same order.
C8_DepthOrder ==
    FrameDone =>
       /\ Len(drawn) = Len(bodies)
       /\ \A i \in Idx : \E k \in 1 .. Len(drawn) : drawn[k].i = i
       /\ \A k, l \in 1 .. Len(drawn) :
             k < l =>
                /\ state[drawn[k].i].z >= state[drawn[l].i].z
                /\ state[drawn[k].i].z = state[drawn[l].i].z
                      => drawn[k].i < drawn[l].i
       /\ \E again \in {Sorted(state)} :
             \A k \in 1 .. Len(drawn) : again[k].i = drawn[k].i

\* a frame whose order is not the catalog's and in which two bodies tie
C8_Witness ==
    /\ FrameDone
    /\ \E k, l \in 1 .. Len(drawn) :
          k < l /\ drawn[k].i > drawn[l].i
          /\ state[drawn[k].i].z > state[drawn[l].i].z
    /\ \E k, l \in 1 .. Len(drawn) :
          k < l /\ state[drawn[k].i].z = state[drawn[l].i].z
    /\ \E k \in 1 .. Len(drawn) : state[drawn[k].i].z < 0

\* C9: from mount until teardown exactly one frame callback is pending
\* between frames, every draw() requests one, also across resize events, and
\* under a fair frame scheduler every frame is followed by another.
C9_SingleLoop ==
    /\ []((called /\ ~torn) => rafPending = 1)
    /\ [][(frames' # frames /\ ~torn) => rafPending' = 1]_vars
    /\ [][op' = "resize" => rafPending' = rafPending]_vars
    /\ \A k \in 1 .. (MaxFrames - 1) :
          (frames = k /\ ~torn) ~> (frames = k + 1 \/ torn)

\* a frame has followed a frame with a resize event in between, and one
\* callback is pending
C9_Witness ==
    /\ frames >= 2
    /\ ~torn
    /\ usedScale # scale
    /\ rafPending = 1

\* C10: a frame computes every body from one scale value, the one the last
\* completed resize() wrote (never the initial 1), and writes neither the
\* scale nor the angle; the scale changes only in resize() and the angle
\* never.
C10_FrameReadsOneScale ==
    /\ [](FrameDone =>
            \E w \in Widths, h \in Heights :
               usedScale = MulDiv(Min(w, h), SCALE_ONE, 13000))
    /\ [][frames' # frames =>
            /\ usedScale' = scale'
            /\ op' = "draw" => scale' = scale
            /\ \A i \in Idx :
                  /\ state'[i].dr = ScaleBy(Body(i).d, usedScale')
                  /\ state'[i].r = Max(IF Satellite(i) THEN PX \div 2
                                       ELSE (51 * PX) \div 100,
                                       ScaleBy(Body(i).r, usedScale'))]_vars
    /\ [][scale' # scale => op' \in {"resize", "globes"}]_vars
    /\ [][angle' = angle]_vars

\* a frame ran after a resize event changed the scale
C10_Witness ==
    /\ frames >= 2
    /\ op = "draw"
    /\ usedScale = scale
    /\ usedScale > 0
    /\ state[1].dr = ScaleBy(Body(1).d, scale)
    /\ state[1].dr # state[1].x

====
